---- MODULE Spec2Model ----
(***************************************************************************)
(* CRISPResso2_analyzer: filename classification, FASTQ pairing, parallel  *)
(* job orchestration and aggregation of the per-sample reports.            *)
(*                                                                         *)
(* Strings are sequences of atoms.  An atom is a short piece of text that  *)
(* the regular expressions of the program never split ("Day", "_", "R",    *)
(* a digit, ".fastq", ...).  AtomCodes gives the characters of an atom so  *)
(* that strings compare as Python compares them.                           *)
(***************************************************************************)
EXTENDS Integers, Sequences, FiniteSets, TLC

VARIABLES
    fname,        \* SpecParse: the file name handed to parse_fastq_metadata
    meta,         \* SpecParse: what parse_fastq_metadata returned
    tree,         \* the files below the scratch root: [dir, name, id]
    pairs,        \* the list pair_fastqs returned
    moves,        \* renames done by the last reorganize_extracted_fastqs
    runs,         \* calls of reorganize_extracted_fastqs on the tree so far
    parallel,     \* max_workers of the ThreadPoolExecutor
    jobState,     \* per submitted job: "queued", "running" or "done"
    jobResult,    \* per job: "none", "ok" (exit 0), "fail" (exit # 0), "raise"
    collected,    \* the jobs whose future the as_completed loop has taken
    gen,          \* run_crispresso_parallel: "idle", "pool", "closing",
                  \* "returned" or "raised"
    log,          \* the lines the generator yielded (in the app: run_messages)
    made,         \* the output directories created below out_root
    reports,      \* the output directories that hold the tool's reports
    outputs_root, \* app: whether outputs_root has been set
    replicas_holder, \* app: the replicate names found below out_root
    dfs,          \* app: per replicate of replicas_holder, its rows
    seq_args,     \* the cleaned amplicon, coding and guide sequences of the
                  \* last run request (the runner's amplicon, coding_seq, guide)
    outfiles,     \* SpecReport: the files below an output directory
    record,       \* SpecReport: what process_treatment_folder returned
    outdirs,      \* SpecTable: the folders below out_root and their reports
    built,        \* SpecTable: the call of build_dfs_by_replicate and its result
    table,        \* SpecSens: the rows handed to calculate_sensitivity
    sensitivity,  \* SpecSens: the call of calculate_sensitivity and its result
    stage         \* position of the specification that is running

parseVars == <<fname, meta>>
treeVars  == <<tree, pairs>>
reorgVars == <<moves, runs>>
poolVars  == <<parallel, jobState, jobResult, collected, gen, log, made, reports>>
appVars   == <<outputs_root, replicas_holder, dfs, seq_args>>
sensVars  == <<table, sensitivity>>
reportVars == <<outfiles, record, outdirs, built, sensVars>>
vars == <<fname, meta, tree, pairs, moves, runs, parallel, jobState, jobResult,
          collected, gen, log, made, reports, outputs_root, replicas_holder,
          dfs, seq_args, outfiles, record, outdirs, built, table, sensitivity,
          stage>>

\* Nothing has been submitted and the app holds nothing.
RunIdle ==
    /\ parallel = 0
    /\ jobState = <<>>
    /\ jobResult = <<>>
    /\ collected = {}
    /\ gen = "idle"
    /\ log = <<>>
    /\ made = {}
    /\ reports = {}
    /\ outputs_root = FALSE
    /\ replicas_holder = <<>>
    /\ dfs = <<>>
    /\ seq_args = <<>>
    /\ outfiles = {}
    /\ record = <<>>
    /\ outdirs = {}
    /\ built = <<>>
    /\ table = <<>>
    /\ sensitivity = <<>>

----------------------------------------------------------------------------
(* Strings *)

None == <<>>

Digits == {"0", "1", "2", "3"}

\* The characters of an atom, as ASCII codes.
AtomCodes(a) ==
    CASE a = "_"        -> <<95>>
      [] a = "-"        -> <<45>>
      [] a = "0"        -> <<48>>
      [] a = "1"        -> <<49>>
      [] a = "2"        -> <<50>>
      [] a = "3"        -> <<51>>
      [] a = "A"        -> <<65>>
      [] a = "B"        -> <<66>>
      [] a = "R"        -> <<82>>
      [] a = "r"        -> <<114>>
      [] a = "a"        -> <<97>>
      [] a = "b"        -> <<98>>
      [] a = "Day"      -> <<68, 97, 121>>
      [] a = "day"      -> <<100, 97, 121>>
      [] a = "WT"       -> <<87, 84>>
      [] a = "wt"       -> <<119, 116>>
      [] a = "Drug"     -> <<68, 114, 117, 103>>
      [] a = "drug"     -> <<100, 114, 117, 103>>
      [] a = "rerun"    -> <<114, 101, 114, 117, 110>>
      [] a = "RERUN"    -> <<82, 69, 82, 85, 78>>
      [] a = "unknown"  -> <<117, 110, 107, 110, 111, 119, 110>>
      [] a = "untreated" -> <<117, 110, 116, 114, 101, 97, 116, 101, 100>>
      [] a = "Replica-" -> <<82, 101, 112, 108, 105, 99, 97, 45>>
      [] a = ".fastq"   -> <<46, 102, 97, 115, 116, 113>>
      [] a = ".FASTQ"   -> <<46, 70, 65, 83, 84, 81>>
      [] a = ".gz"      -> <<46, 103, 122>>
      [] a = ".txt"     -> <<46, 116, 120, 116>>
      [] a = "X" -> <<88>>
      [] a = "Alleles_frequency_table" -> <<65, 108, 108, 101, 108, 101, 115, 95, 102, 114, 101, 113, 117, 101, 110, 99, 121, 95, 116, 97, 98, 108, 101>>
      [] a = "_around_sgRNA_" -> <<95, 97, 114, 111, 117, 110, 100, 95, 115, 103, 82, 78, 65, 95>>
      [] a = "_around_cut_site_" -> <<95, 97, 114, 111, 117, 110, 100, 95, 99, 117, 116, 95, 115, 105, 116, 101, 95>>
      [] OTHER          -> <<0>>

\* str.lower() on one atom (re.IGNORECASE compares through it).
LowerAtom(a) ==
    CASE a = "A"     -> "a"
      [] a = "B"     -> "b"
      [] a = "R"     -> "r"
      [] a = "Day"   -> "day"
      [] a = "WT"    -> "wt"
      [] a = "Drug"  -> "drug"
      [] a = "RERUN" -> "rerun"
      [] a = ".FASTQ" -> ".fastq"
      [] OTHER       -> a

LowerStr(s) == [i \in 1..Len(s) |-> LowerAtom(s[i])]

RECURSIVE Codes(_)
Codes(s) == IF s = <<>> THEN <<>> ELSE AtomCodes(Head(s)) \o Codes(Tail(s))

\* Python's < on two lists of comparable items, given the order of the items.
RECURSIVE IntSeqLess(_, _)
IntSeqLess(x, y) ==
    IF y = <<>> THEN FALSE
    ELSE IF x = <<>> THEN TRUE
    ELSE IF Head(x) # Head(y) THEN Head(x) < Head(y)
    ELSE IntSeqLess(Tail(x), Tail(y))

StrLess(s, t) == IntSeqLess(Codes(s), Codes(t))

EndsWith(s, suf) ==
    /\ Len(s) >= Len(suf)
    /\ SubSeq(s, Len(s) - Len(suf) + 1, Len(s)) = suf

StartsWith(s, pre) ==
    /\ Len(s) >= Len(pre)
    /\ SubSeq(s, 1, Len(pre)) = pre

\* The fields of a string: the pieces between its "_" atoms.
RECURSIVE Split(_)
Split(s) ==
    IF \A i \in 1..Len(s) : s[i] # "_" THEN <<s>>
    ELSE LET i == CHOOSE j \in 1..Len(s) :
                      s[j] = "_" /\ \A k \in 1..(j - 1) : s[k] # "_"
         IN  <<SubSeq(s, 1, i - 1)>> \o Split(SubSeq(s, i + 1, Len(s)))

\* The inverse of Split: the fields joined by "_".
RECURSIVE Join(_)
Join(fs) ==
    IF fs = <<>> THEN <<>>
    ELSE IF Len(fs) = 1 THEN fs[1]
    ELSE fs[1] \o <<"_">> \o Join(Tail(fs))

AllDigits(f) == Len(f) >= 1 /\ \A i \in 1..Len(f) : f[i] \in Digits

\* The longest prefix of digits of a field: what a greedy \d+ takes.
RECURSIVE LeadDigits(_)
LeadDigits(f) ==
    IF f = <<>> \/ Head(f) \notin Digits THEN <<>>
    ELSE <<Head(f)>> \o LeadDigits(Tail(f))

----------------------------------------------------------------------------
(* utils.parse_fastq_metadata *)

\* ^Day(?P<day>\d+)_ : the first field is "Day" (any case) and digits.
IsDayField(f) ==
    /\ Len(f) >= 2
    /\ LowerAtom(f[1]) = "day"
    /\ AllDigits(Tail(f))

\* .*\.fastq(?:\.gz)?$ on what follows the replicate number.
TailHasFastq(t) ==
    \/ EndsWith(LowerStr(t), <<".fastq">>)
    \/ EndsWith(LowerStr(t), <<".fastq", ".gz">>)

\* One way of reading the fields F of a name: with the optional generation
\* field (g = 1) or without it (g = 0), with the optional rerun marker
\* taken (r = TRUE) or left to ".*" (r = FALSE).
ParseFits(F, g, r) ==
    /\ Len(F) >= 4 + g
    /\ IsDayField(F[1])
    /\ \A i \in 2..(3 + g) : F[i] # <<>>
    /\ LeadDigits(F[4 + g]) # <<>>
    /\ LET repF == F[4 + g]
           rep  == LeadDigits(repF)
           rest == SubSeq(repF, Len(rep) + 1, Len(repF))
           after == SubSeq(F, 5 + g, Len(F))
       IN  IF r
           THEN /\ rest = <<>>
                /\ Len(F) >= 5 + g
                /\ F[5 + g] # <<>>
                /\ LowerAtom(F[5 + g][1]) = "rerun"
                /\ TailHasFastq(Join(<<Tail(F[5 + g])>> \o SubSeq(F, 6 + g, Len(F))))
           ELSE TailHasFastq(Join(<<rest>> \o after))

\* ParseTags with the .lower() of the treatment forgotten.
ParseTagsNoLower(F, g, r) ==
    LET day   == Tail(F[1])
        rep   == LeadDigits(F[4 + g])
        tr    == F[3 + g]
        treat == IF tr = <<>> THEN <<"untreated">> ELSE tr
    IN  << <<"Replica-">> \o rep,
           IF r THEN <<"Day">> \o day \o <<"_">> \o treat \o <<"_", "rerun">>
                ELSE <<"Day">> \o day \o <<"_">> \o treat >>

\* The tags the f-strings of the return statement build from a reading.
ParseTags(F, g, r) ==
    LET day   == Tail(F[1])
        rep   == LeadDigits(F[4 + g])
        tr    == F[3 + g]
        treat == LowerStr(IF tr = <<>> THEN <<"untreated">> ELSE tr)
    IN  << <<"Replica-">> \o rep,
           IF r THEN <<"Day">> \o day \o <<"_">> \o treat \o <<"_", "rerun">>
                ELSE <<"Day">> \o day \o <<"_">> \o treat >>

\* The order in which the regular-expression engine tries the readings:
\* optional groups are taken first and given up on backtracking.
ParseOrder == << <<1, TRUE>>, <<1, FALSE>>, <<0, TRUE>>, <<0, FALSE>> >>

parse_fastq_metadata(name) ==
    LET F    == Split(name)
        fits == {i \in 1..Len(ParseOrder) :
                    ParseFits(F, ParseOrder[i][1], ParseOrder[i][2])}
    IN  IF fits = {} THEN None
        ELSE LET i == CHOOSE j \in fits : \A k \in fits : j <= k
             IN  ParseTags(F, ParseOrder[i][1], ParseOrder[i][2])

----------------------------------------------------------------------------
(* runner.pair_fastqs *)

\* R?[12](?:[_-]?\d+)? inside one field: the read index, with a run chunk
\* written straight after it or after a "-".
ReadCore(f) == IF f # <<>> /\ LowerAtom(f[1]) = "r" THEN Tail(f) ELSE f

PlainRead(f) == ReadCore(f) \in {<<"1">>, <<"2">>}

ReadField(f) ==
    LET g == ReadCore(f)
    IN  /\ g # <<>>
        /\ g[1] \in {"1", "2"}
        /\ \/ Tail(g) = <<>>
           \/ AllDigits(Tail(g))
           \/ Tail(g)[1] = "-" /\ AllDigits(Tail(Tail(g)))

\* The fields after the base: the read index, and perhaps a run chunk "_001".
ReadFits(rest) ==
    \/ Len(rest) = 1 /\ ReadField(rest[1])
    \/ Len(rest) = 2 /\ PlainRead(rest[1]) /\ AllDigits(rest[2])

\* _R12.match(name): None, or the groups base and read.  The base is lazy
\* (.+?): the shortest one after which the rest of the name fits.
R12Match(name) ==
    IF ~EndsWith(LowerStr(name), <<".fastq", ".gz">>) THEN None
    ELSE LET F    == Split(SubSeq(name, 1, Len(name) - 2))
             fits == {k \in 1..(Len(F) - 1) :
                         /\ Join(SubSeq(F, 1, k)) # <<>>
                         /\ ReadFits(SubSeq(F, k + 1, Len(F)))}
         IN  IF fits = {} THEN None
             ELSE LET k == CHOOSE j \in fits : \A i \in fits : j <= i
                  IN  [base |-> Join(SubSeq(F, 1, k)),
                       read |-> ReadCore(F[k + 1])[1]]

\* Python's < on two lists of strings (the parts of a path).
RECURSIVE PartsLess(_, _)
PartsLess(x, y) ==
    IF y = <<>> THEN FALSE
    ELSE IF x = <<>> THEN TRUE
    ELSE IF Head(x) # Head(y) THEN StrLess(Head(x), Head(y))
    ELSE PartsLess(Tail(x), Tail(y))

PathOf(f) == f.dir \o <<f.name>>

PathLess(f, g) == PartsLess(PathOf(f), PathOf(g))

\* sorted(...) of a set of files by path.
RECURSIVE SortedPaths(_)
SortedPaths(S) ==
    IF S = {} THEN <<>>
    ELSE LET m == CHOOSE f \in S : \A g \in S \ {f} : PathLess(f, g)
         IN  <<m>> \o SortedPaths(S \ {m})

\* root.rglob("*.fastq.gz"): the glob compares case as the file system does.
Rglob(t) == {f \in t : EndsWith(f.name, <<".fastq", ".gz">>)}

KeyOf(f) == <<f.dir, R12Match(f.name).base>>

\* SetDefault as a plain assignment map[key] = p: the last path seen wins.
SetOverwrite(map, key, p) ==
    {e \in map : e.key # key} \cup {[key |-> key, path |-> p]}

\* dict.setdefault(key, p) on a map kept as a set of [key, path] entries.
SetDefault(map, key, p) ==
    IF \E e \in map : e.key = key THEN map
    ELSE map \cup {[key |-> key, path |-> p]}

\* The loop over the sorted paths: the maps r1_map and r2_map after it.
RECURSIVE ScanFastqs(_, _)
ScanFastqs(ps, maps) ==
    IF ps = <<>> THEN maps
    ELSE LET p == Head(ps)
             m == R12Match(p.name)
         IN  IF m = None THEN ScanFastqs(Tail(ps), maps)
             ELSE IF m.read = "1"
                  THEN ScanFastqs(Tail(ps),
                         [maps EXCEPT !.r1 = SetDefault(@, KeyOf(p), p)])
                  ELSE ScanFastqs(Tail(ps),
                         [maps EXCEPT !.r2 = SetDefault(@, KeyOf(p), p)])

\* Python's < on two (folder, base) keys.
KeyLess(k, l) ==
    IF k[1] # l[1] THEN PartsLess(k[1], l[1]) ELSE StrLess(k[2], l[2])

\* BuildPairs keeping only the keys that have both mates.
RECURSIVE BuildPairsBothMates(_, _)
BuildPairsBothMates(r1, r2) ==
    IF r1 = {} THEN <<>>
    ELSE LET e  == CHOOSE x \in r1 : \A y \in r1 \ {x} : KeyLess(x.key, y.key)
             m2 == {x \in r2 : x.key = e.key}
         IN  (IF m2 = {} THEN <<>>
              ELSE <<[sample |-> e.key[2], r1 |-> e.path,
                      r2 |-> (CHOOSE x \in m2 : TRUE).path]>>)
             \o BuildPairsBothMates(r1 \ {e}, r2)

\* sorted(r1_map.items()) and the list of (sample_name, r1, r2) built from it.
RECURSIVE BuildPairs(_, _)
BuildPairs(r1, r2) ==
    IF r1 = {} THEN <<>>
    ELSE LET e  == CHOOSE x \in r1 : \A y \in r1 \ {x} : KeyLess(x.key, y.key)
             m2 == {x \in r2 : x.key = e.key}
         IN  <<[sample |-> e.key[2],
                r1     |-> e.path,
                r2     |-> IF m2 = {} THEN None
                           ELSE (CHOOSE x \in m2 : TRUE).path]>>
             \o BuildPairs(r1 \ {e}, r2)

pair_fastqs(t) ==
    LET maps == ScanFastqs(SortedPaths(Rglob(t)), [r1 |-> {}, r2 |-> {}])
    IN  BuildPairs(maps.r1, maps.r2)

\* The output directory the inner function one() computes for a pair,
\* relative to out_root.  The scratch root is a temporary directory, so the
\* folders above it do not carry the replicate prefix.
SampleOut(pr) ==
    LET parent == pr.r1.dir
        rep    == IF Len(parent) >= 2 THEN parent[Len(parent) - 1] ELSE <<"tmp">>
    IN  IF StartsWith(rep, <<"Replica-">>)
        THEN <<rep, parent[Len(parent)], pr.sample>>
        ELSE <<pr.sample>>

----------------------------------------------------------------------------
(* SpecPair: pair_fastqs applied to every tree of a bounded set *)

MaxFiles == 4

Fq == <<".fastq", ".gz">>

PairNames == {
    <<"A", "_", "R", "1">> \o Fq,
    <<"A", "_", "R", "2">> \o Fq,
    <<"B", "_", "1">> \o Fq,
    <<"A", "_", "R", "1", "_", "0", "0", "1">> \o Fq,
    <<"A", "_", "2", "-", "1">> \o Fq,
    <<"A", "_", "1", "_", "2">> \o Fq,
    <<"A">> \o Fq,
    <<"A", "_", "R", "1", ".FASTQ", ".gz">> }

PairDirs == { <<>>, << <<"a">> >>, << <<"Replica-", "1">>, <<"a">> >> }

NewFile(d, n) == [dir |-> d, name |-> n, id |-> d \o <<n>>]

InitPair ==
    /\ fname = <<>>
    /\ meta = None
    /\ tree = {}
    /\ pairs = <<>>
    /\ moves = 0
    /\ runs = 0
    /\ RunIdle
    /\ stage = "tree"

\* A file lies in the directory handed to pair_fastqs.
AddFile(d, n) ==
    /\ stage = "tree"
    /\ Cardinality(tree) < MaxFiles
    /\ \A f \in tree : ~(f.dir = d /\ f.name = n)
    /\ tree' = tree \cup {NewFile(d, n)}
    /\ UNCHANGED <<pairs, stage, parseVars, reportVars, reorgVars, poolVars, appVars>>

\* pair_fastqs(root)
PairFastqs ==
    /\ stage = "tree"
    /\ pairs' = pair_fastqs(tree)
    /\ stage' = "paired"
    /\ UNCHANGED <<tree, parseVars, reportVars, reorgVars, poolVars, appVars>>

NextPair ==
    \/ \E d \in PairDirs : \E n \in PairNames : AddFile(d, n)
    \/ PairFastqs

SpecPair == InitPair /\ [][NextPair]_vars

----------------------------------------------------------------------------
(* utils.reorganize_extracted_fastqs *)

\* DestDir with the destination taken below the folder of the file instead
\* of below the root.
DestDirBelowParent(f) ==
    LET m == parse_fastq_metadata(f.name)
    IN  IF m = None THEN f.dir \o << <<"Replica-", "unknown">>, <<"Day", "-", "unknown">> >>
        ELSE f.dir \o <<m[1], m[2]>>

\* The folder, relative to the root, a file is to be moved into.
DestDir(f) ==
    LET m == parse_fastq_metadata(f.name)
    IN  IF m = None THEN << <<"Replica-", "unknown">>, <<"Day", "-", "unknown">> >>
        ELSE <<m[1], m[2]>>

\* One turn of the loop on the file f: [tree, moves] after it.  A file that
\* is already at newp is left alone; p.rename(newp) replaces a file that
\* lies at newp.
MoveOne(st, f) ==
    IF f \notin st.tree \/ f.dir = DestDir(f) THEN st
    ELSE [tree  |-> {g \in st.tree :
                        g # f /\ ~(g.dir = DestDir(f) /\ g.name = f.name)}
                    \cup {[f EXCEPT !.dir = DestDir(f)]},
          moves |-> st.moves + 1]

RECURSIVE MoveAll(_, _)
MoveAll(order, st) ==
    IF order = <<>> THEN st ELSE MoveAll(Tail(order), MoveOne(st, Head(order)))

IsPrefix(x, y) == Len(x) <= Len(y) /\ SubSeq(y, 1, Len(x)) = x

\* The orders in which rglob can hand out the files: a folder's files come
\* before the files of the folders below it; otherwise the order is that of
\* the file system.
RECURSIVE WalkOrders(_)
WalkOrders(S) ==
    IF S = {} THEN {<<>>}
    ELSE UNION { {<<f>> \o o : o \in WalkOrders(S \ {f})} :
                 f \in {g \in S : \A h \in S :
                            ~(IsPrefix(h.dir, g.dir) /\ h.dir # g.dir)} }

\* The set of [tree, moves] reorganize_extracted_fastqs can leave.
reorganize_extracted_fastqs(t) ==
    {MoveAll(o, [tree |-> t, moves |-> 0]) : o \in WalkOrders(Rglob(t))}

----------------------------------------------------------------------------
(* SpecReorg: reorganize_extracted_fastqs applied, more than once, to      *)
(* every extracted tree of a bounded set                                   *)

MaxExtracted == 3

MaxRuns == 2

ReadNames == {
    <<"Day", "3", "_", "WT", "_", "Drug", "_", "1", "_", "R", "1">> \o Fq,
    <<"Day", "3", "_", "WT", "_", "Drug", "_", "1", "_", "R", "2">> \o Fq,
    <<"Day", "3", "_", "WT", "_", "Drug", "_", "2", "_", "RERUN", "_", "R", "1">> \o Fq,
    <<"Day", "3", "_", "WT", "_", "Drug", "_", "1", "_", "1">> \o Fq,
    <<"Day", "3", "_", "WT", "_", "Drug", "_", "1", "_", "2">> \o Fq,
    <<"A", "_", "R", "1">> \o Fq,
    <<"Day", "3", "_", "WT", "_", "Drug", "_", "1", "_", "R", "1", ".fastq">> }

ExtractedDirs == { <<>>, << <<"a">> >>,
                   << <<"Replica-", "1">>, <<"Day", "3", "_", "drug">> >> }

InitReorg ==
    /\ fname = <<>>
    /\ meta = None
    /\ tree = {}
    /\ pairs = <<>>
    /\ moves = 0
    /\ runs = 0
    /\ RunIdle
    /\ stage = "zip"

\* A file of the archive, extracted below the scratch root.
ExtractFile(d, n) ==
    /\ stage = "zip"
    /\ Cardinality(tree) < MaxExtracted
    /\ \A f \in tree : ~(f.dir = d /\ f.name = n)
    /\ tree' = tree \cup {NewFile(d, n)}
    /\ UNCHANGED <<pairs, stage, parseVars, reportVars, reorgVars, poolVars, appVars>>

\* reorganize_extracted_fastqs(tmp_path)
Reorganize ==
    /\ stage \in {"zip", "organized"}
    /\ runs < MaxRuns
    /\ \E r \in reorganize_extracted_fastqs(tree) :
           /\ tree' = r.tree
           /\ moves' = r.moves
    /\ runs' = runs + 1
    /\ stage' = "organized"
    /\ UNCHANGED <<pairs, parseVars, reportVars, poolVars, appVars>>

NextReorg ==
    \/ \E d \in ExtractedDirs : \E n \in ReadNames : ExtractFile(d, n)
    \/ Reorganize

SpecReorg == InitReorg /\ [][NextReorg]_vars

----------------------------------------------------------------------------
(* runner.run_crispresso_parallel *)

Jobs == 1..Len(pairs)

Running == {j \in Jobs : jobState[j] = "running"}

Line(kind, sample, n) == [kind |-> kind, sample |-> sample, n |-> n]

ErrorLine(sample) == Line("error", sample, 0)

CompletedLine == Line("completed", <<>>, Len(pairs))

SeqArgs(amplicon, coding, guide) ==
    [amplicon |-> amplicon, coding_seq |-> coding, guide |-> guide]

ThreadsPerSample == 4

Arg(flag, value) == [flag |-> flag, value |-> value]

\* The command one() builds for a pair: -r2 only with a second read file,
\* --coding_seq only with a coding sequence that is not empty (extra_args
\* is left at its default, the empty string).
Cmd(pr, sa, min_aln, plot_win) ==
    << Arg("-r1", PathOf(pr.r1)),
       Arg("-a", sa.amplicon),
       Arg("-g", sa.guide),
       Arg("-o", SampleOut(pr)),
       Arg("--n_processes", ThreadsPerSample) >>
    \o (IF pr.r2 # None THEN <<Arg("-r2", PathOf(pr.r2))>> ELSE <<>>)
    \o (IF sa.coding_seq # <<>> THEN <<Arg("--coding_seq", sa.coding_seq)>> ELSE <<>>)
    \o << Arg("--default_min_aln_score", min_aln),
          Arg("--plot_window_size", plot_win) >>

\* futs = [ex.submit(one, s, r1, r2) for (s, r1, r2) in pairs] on a new
\* ThreadPoolExecutor(max_workers = workers): every job is queued.
Submit(ps, workers) ==
    /\ pairs' = ps
    /\ parallel' = workers
    /\ jobState' = [j \in 1..Len(ps) |-> "queued"]
    /\ jobResult' = [j \in 1..Len(ps) |-> "none"]
    /\ collected' = {}
    /\ gen' = "pool"
    /\ made' = {}
    /\ reports' = {}

\* Start without the limit of max_workers threads.
StartUnbounded(j) ==
    /\ jobState[j] = "queued"
    /\ \A i \in Jobs : i < j => jobState[i] # "queued"
    /\ jobState' = [jobState EXCEPT ![j] = "running"]
    /\ made' = made \cup {SampleOut(pairs[j])}
    /\ UNCHANGED <<parallel, jobResult, collected, gen, log, reports,
                   tree, pairs, stage, parseVars, reportVars, reorgVars, appVars>>

\* A worker thread takes the oldest queued job and enters one(): the output
\* directory is made and the tool is started.  The pool never has more than
\* max_workers threads.
Start(j) ==
    /\ jobState[j] = "queued"
    /\ \A i \in Jobs : i < j => jobState[i] # "queued"
    /\ Cardinality(Running) < parallel
    /\ jobState' = [jobState EXCEPT ![j] = "running"]
    /\ made' = made \cup {SampleOut(pairs[j])}
    /\ UNCHANGED <<parallel, jobResult, collected, gen, log, reports,
                   tree, pairs, stage, parseVars, reportVars, reorgVars, appVars>>

\* subprocess.run comes back with exit code 0 ("ok", the reports are
\* written) or another exit code ("fail"), or it raises ("raise").
Finish(j, r) ==
    /\ jobState[j] = "running"
    /\ jobState' = [jobState EXCEPT ![j] = "done"]
    /\ jobResult' = [jobResult EXCEPT ![j] = r]
    /\ reports' = IF r = "ok" THEN reports \cup {SampleOut(pairs[j])} ELSE reports
    /\ UNCHANGED <<parallel, collected, gen, log, made,
                   tree, pairs, stage, parseVars, reportVars, reorgVars, appVars>>

\* Collect with subprocess.run(check = True): a non-zero exit raises too.
CollectRaisesOnFail(j) ==
    /\ gen = "pool"
    /\ jobState[j] = "done"
    /\ j \notin collected
    /\ collected' = collected \cup {j}
    /\ gen' = IF jobResult[j] = "ok" THEN "pool" ELSE "closing"
    /\ UNCHANGED <<log, parallel, jobState, jobResult, made, reports,
                   tree, pairs, stage, parseVars, reportVars, reorgVars, appVars>>

\* One turn of "for fut in as_completed(futs)": fut.result() of a finished
\* job; a non-zero exit code yields the failure line, an exception of the
\* job leaves the loop and the with block.
Collect(j) ==
    /\ gen = "pool"
    /\ jobState[j] = "done"
    /\ j \notin collected
    /\ collected' = collected \cup {j}
    /\ \/ /\ jobResult[j] = "raise"
          /\ gen' = "closing"
          /\ UNCHANGED log
       \/ /\ jobResult[j] = "fail"
          /\ log' = Append(log, ErrorLine(pairs[j].sample))
          /\ UNCHANGED gen
       \/ /\ jobResult[j] = "ok"
          /\ UNCHANGED <<gen, log>>
    /\ UNCHANGED <<parallel, jobState, jobResult, made, reports,
                   tree, pairs, stage, parseVars, reportVars, reorgVars, appVars>>

\* Complete without waiting for the loop to end.
CompleteEarly ==
    /\ gen = "pool"
    /\ log' = Append(log, CompletedLine)
    /\ gen' = "returned"
    /\ UNCHANGED <<parallel, jobState, jobResult, collected, made, reports,
                   tree, pairs, stage, parseVars, reportVars, reorgVars, appVars>>

\* The loop has taken every future: the final line is yielded, the with
\* block is left and the generator returns.
Complete ==
    /\ gen = "pool"
    /\ collected = Jobs
    /\ log' = Append(log, CompletedLine)
    /\ gen' = "returned"
    /\ UNCHANGED <<parallel, jobState, jobResult, collected, made, reports,
                   tree, pairs, stage, parseVars, reportVars, reorgVars, appVars>>

\* CloseWait with shutdown(wait = False).
CloseNoWait ==
    /\ gen = "closing"
    /\ gen' = "raised"
    /\ UNCHANGED <<parallel, jobState, jobResult, collected, log, made, reports,
                   tree, pairs, stage, parseVars, reportVars, reorgVars, appVars>>

\* The exception leaves the with block: ThreadPoolExecutor.__exit__ is
\* shutdown(wait = True), which returns when every queued and running job is
\* done; then the exception reaches the caller.
CloseWait ==
    /\ gen = "closing"
    /\ \A j \in Jobs : jobState[j] = "done"
    /\ gen' = "raised"
    /\ UNCHANGED <<parallel, jobState, jobResult, collected, log, made, reports,
                   tree, pairs, stage, parseVars, reportVars, reorgVars, appVars>>

ExitKinds == {"ok", "fail", "raise"}

Pool ==
    \/ \E j \in Jobs : Start(j)
    \/ \E j \in Jobs : \E r \in ExitKinds : Finish(j, r)
    \/ \E j \in Jobs : Collect(j)
    \/ Complete
    \/ CloseWait

----------------------------------------------------------------------------
(* SpecRunner: run_crispresso_parallel called with a list of pairs and a   *)
(* number of parallel samples                                              *)

MaxJobs == 5

MaxParallel == 4

\* The i-th pair of the caller's list: the sample names repeat, the folders
\* do not.
CallerPair(i) ==
    LET nm == IF i % 2 = 1 THEN <<"A">> ELSE <<"B">>
        d  == [k \in 1..((i - 1) \div 2) |-> <<"a">>]
        f  == NewFile(d, nm \o <<"_", "R", "1">> \o Fq)
    IN  [sample |-> nm, r1 |-> f, r2 |-> None]

InitRunner ==
    /\ fname = <<>>
    /\ meta = None
    /\ tree = {}
    /\ pairs = <<>>
    /\ moves = 0
    /\ runs = 0
    /\ RunIdle
    /\ stage = "call"

\* The coding sequences a caller passes: none, or one.
CodingInputs == { <<>>, <<"A", "N">> }

\* run_crispresso_parallel(pairs = ..., coding_seq = ..., parallel_samples = ...)
CallRunner(n, workers, coding) ==
    /\ stage = "call"
    /\ Submit([i \in 1..n |-> CallerPair(i)], workers)
    /\ seq_args' = SeqArgs(<<"A", "N">>, coding, <<"A", "N">>)
    /\ stage' = "run"
    /\ UNCHANGED <<log, tree, parseVars, reportVars, reorgVars, outputs_root,
                   replicas_holder, dfs>>

NextRunner ==
    \/ \E n \in 0..MaxJobs : \E w \in 1..MaxParallel : \E c \in CodingInputs :
          CallRunner(n, w, c)
    \/ Pool

SpecRunner == InitRunner /\ [][NextRunner]_vars

----------------------------------------------------------------------------
(* app.server: the upload handler, the run handler and the table builder *)

ParallelSamplesDefault == 4

DefaultMinAln == 60

DefaultPlotWindow == 20

UpperAtom(a) ==
    CASE a = "a" -> "A"
      [] a = "c" -> "C"
      [] a = "g" -> "G"
      [] a = "t" -> "T"
      [] a = "n" -> "N"
      [] a = "x" -> "X"
      [] OTHER   -> a

RECURSIVE DropBlanks(_)
DropBlanks(q) ==
    IF q = <<>> THEN <<>>
    ELSE IF Head(q) \in {" ", "\n"} THEN DropBlanks(Tail(q))
    ELSE <<Head(q)>> \o DropBlanks(Tail(q))

\* _clean(seq): blanks and line ends removed, upper case.
Clean(q) == LET d == DropBlanks(q) IN [i \in 1..Len(d) |-> UpperAtom(d[i])]

RECURSIVE LStrip(_)
LStrip(q) ==
    IF q # <<>> /\ Head(q) \in {" ", "\n"} THEN LStrip(Tail(q)) ELSE q

RECURSIVE RStrip(_)
RStrip(q) ==
    IF q # <<>> /\ q[Len(q)] \in {" ", "\n"}
    THEN RStrip(SubSeq(q, 1, Len(q) - 1)) ELSE q

\* seqs(): the blanks at both ends removed, upper case.
StripUpper(q) ==
    LET d == RStrip(LStrip(q)) IN [i \in 1..Len(d) |-> UpperAtom(d[i])]

\* _valid without the test of the letters.
ValidLength(q) == q # <<>>

\* _valid(seq)
Valid(q) == q # <<>> /\ \A i \in 1..Len(q) : q[i] \in {"A", "C", "G", "T", "N"}

\* sorted(...) of a set of names.
RECURSIVE SortedStrs(_)
SortedStrs(S) ==
    IF S = {} THEN <<>>
    ELSE LET m == CHOOSE x \in S : \A y \in S \ {x} : StrLess(x, y)
         IN  <<m>> \o SortedStrs(S \ {m})

\* The names of the folders directly below out_root, and below a folder.
TopDirs(mk) == {p[1] : p \in mk}

SubDirs(mk, path) ==
    {p[Len(path) + 1] : p \in {q \in mk : IsPrefix(path, q) /\ Len(q) > Len(path)}}

\* utils.list_replicates_from_outputs
list_replicates_from_outputs(mk) ==
    LET reps == {d \in TopDirs(mk) : StartsWith(d, <<"Replica-">>)}
    IN  IF reps # {} THEN SortedStrs(reps) ELSE SortedStrs(TopDirs(mk))

\* utils.process_treatment_folder: the reports lie in the folder itself or
\* in a folder below it (the first CRISPResso_RUNNING_LOG.txt rglob finds);
\* with no reports there is no record.
HasRecord(rp, path) == \E r \in rp : IsPrefix(path, r)

\* The sequences that list the elements of a set once each.
RECURSIVE Perms(_)
Perms(S) ==
    IF S = {} THEN {<<>>}
    ELSE UNION { {<<x>> \o q : q \in Perms(S \ {x})} : x \in S }

Row(rep, treat) == [Replicate |-> rep, Treatment |-> treat]

\* The tables build_dfs_by_replicate can give one replicate: one row for the
\* replicate itself when it has no folders, else one row per folder that
\* yields a record, in the order iterdir hands the folders out.
ReplicateTables(mk, rp, rep) ==
    IF rep \notin TopDirs(mk) THEN {<<>>}
    ELSE IF SubDirs(mk, <<rep>>) = {}
         THEN IF HasRecord(rp, <<rep>>) THEN {<<Row(rep, rep)>>} ELSE {<<>>}
         ELSE Perms({Row(rep, t) :
                       t \in {u \in SubDirs(mk, <<rep>>) : HasRecord(rp, <<rep, u>>)}})

\* df_selected with every replicate selected: the tables that are not empty,
\* one after the other.
RECURSIVE Concat(_)
Concat(tables) ==
    IF tables = <<>> THEN <<>> ELSE Head(tables) \o Concat(Tail(tables))

FinalTable == Concat(dfs)

MaxUpload == 4

UploadNames == {
    <<"Day", "3", "_", "WT", "_", "Drug", "_", "1", "_", "R", "1">> \o Fq,
    <<"Day", "3", "_", "WT", "_", "Drug", "_", "1", "_", "R", "2">> \o Fq,
    <<"Day", "3", "_", "A", "_", "Drug", "_", "1", "_", "R", "1">> \o Fq,
    <<"Day", "3", "_", "WT", "_", "WT", "_", "1", "_", "R", "1">> \o Fq,
    <<"Day", "3", "_", "WT", "_", "Drug", "_", "2", "_", "R", "1">> \o Fq,
    <<"A", "_", "R", "1">> \o Fq }

\* What is typed into the amplicon and guide fields, and into the coding
\* sequence field, which may be left empty.
SeqInputs == { <<"a", " ", "N">>, <<"A", "x">> }

CodingSeqInputs == SeqInputs \cup { <<>> }

\* What is typed into the wild type and mutant fields.
RefInputs == { <<>>, <<" ", "a", "N">>, <<"a", " ", "N">> }

Init ==
    /\ fname = <<>>
    /\ meta = None
    /\ tree = {}
    /\ pairs = <<>>
    /\ moves = 0
    /\ runs = 0
    /\ RunIdle
    /\ stage = "zip"

\* A file of the archive the user is about to upload.
ZipFile(n) ==
    /\ stage = "zip"
    /\ Cardinality(tree) < MaxUpload
    /\ \A f \in tree : f.name # n
    /\ tree' = tree \cup {NewFile(<<>>, n)}
    /\ UNCHANGED <<pairs, stage, parseVars, reportVars, reorgVars, poolVars, appVars>>

\* _on_zip_uploaded: the archive is extracted and reorganized.
OnZipUploaded ==
    /\ stage = "zip"
    /\ \E r \in reorganize_extracted_fastqs(tree) :
           /\ tree' = r.tree
           /\ moves' = r.moves
    /\ runs' = runs + 1
    /\ log' = Append(log, Line("uploaded", <<>>, 0))
    /\ stage' = "uploaded"
    /\ UNCHANGED <<pairs, parseVars, reportVars, parallel, jobState, jobResult, collected,
                   gen, made, reports, appVars>>

RunHeader(amplicon, coding, guide) ==
    << Line("amplicon_length", <<>>, Len(amplicon)),
       Line("coding_length", <<>>, Len(coding)),
       Line("guide_length", <<>>, Len(guide)),
       Line("min_aln", <<>>, DefaultMinAln),
       Line("plot_window", <<>>, DefaultPlotWindow) >>

\* _run_crispresso up to the call of run_crispresso_parallel: the early
\* returns, and the submission of one job per pair.  The handler runs when
\* the button is pressed: before a run, or again after one has ended (the
\* model follows one accepted run, and any request that is turned down).
RunCrispresso(a, c, g) ==
    LET amplicon == Clean(a)
        coding   == Clean(c)
        guide    == Clean(g)
        started  == Append(log, Line("starting", <<>>, 0))
    IN  \/ /\ stage = "zip"
           /\ log' = Append(started, Line("no_zip", <<>>, 0))
           /\ stage' = "rejected"
           /\ UNCHANGED <<tree, pairs, parseVars, reportVars, reorgVars, parallel, jobState,
                          jobResult, collected, gen, made, reports, appVars>>
        \/ /\ stage \in {"uploaded", "discovered", "built"}
           /\ ~(Valid(amplicon) /\ Valid(coding) /\ Valid(guide))
           /\ seq_args' = SeqArgs(amplicon, coding, guide)
           /\ log' = Append(started \o RunHeader(amplicon, coding, guide),
                            Line("invalid", <<>>, 0))
           /\ stage' = "rejected"
           /\ UNCHANGED <<tree, pairs, parseVars, reportVars, reorgVars, parallel, jobState,
                          jobResult, collected, gen, made, reports,
                          outputs_root, replicas_holder, dfs>>
        \/ /\ stage = "uploaded"
           /\ Valid(amplicon) /\ Valid(coding) /\ Valid(guide)
           /\ pair_fastqs(tree) = <<>>
           /\ seq_args' = SeqArgs(amplicon, coding, guide)
           /\ log' = started \o RunHeader(amplicon, coding, guide)
           /\ stage' = "rejected"
           /\ UNCHANGED <<tree, pairs, parseVars, reportVars, reorgVars, parallel, jobState,
                          jobResult, collected, gen, made, reports,
                          outputs_root, replicas_holder, dfs>>
        \/ /\ stage = "uploaded"
           /\ Valid(amplicon) /\ Valid(coding) /\ Valid(guide)
           /\ pair_fastqs(tree) # <<>>
           /\ Submit(pair_fastqs(tree), ParallelSamplesDefault)
           /\ seq_args' = SeqArgs(amplicon, coding, guide)
           /\ outputs_root' = TRUE
           /\ log' = Append(started \o RunHeader(amplicon, coding, guide),
                            Line("running_into", <<>>, 0))
           /\ stage' = "run"
           /\ UNCHANGED <<tree, parseVars, reportVars, reorgVars, replicas_holder, dfs>>

\* _run_crispresso after the loop over the generator: the except clause, the
\* discovery of the replicates and of the treatments.
Discover ==
    /\ stage = "run"
    /\ gen \in {"returned", "raised"}
    /\ replicas_holder' = list_replicates_from_outputs(made)
    /\ log' = (IF gen = "raised" THEN Append(log, Line("run_failed", <<>>, 0)) ELSE log)
              \o << Line("finished", <<>>, 0),
                    Line("replicates_found", <<>>,
                         Len(list_replicates_from_outputs(made))) >>
    /\ stage' = "discovered"
    /\ UNCHANGED <<tree, pairs, parseVars, reportVars, reorgVars, parallel, jobState,
                   jobResult, collected, gen, made, reports, outputs_root, dfs,
                   seq_args>>

\* ready_to_build, for the wild type and mutant sequences typed in.
ready_to_build(wt, mut) ==
    /\ outputs_root
    /\ Len(replicas_holder) > 0
    /\ Valid(StripUpper(mut)) /\ Valid(StripUpper(wt))

\* _build_dfs, once ready_to_build holds: build_dfs_by_replicate over the
\* replicates found.
BuildDfs(wt, mut) ==
    /\ stage = "discovered"
    /\ ready_to_build(wt, mut)
    /\ dfs' \in {t \in [1..Len(replicas_holder) ->
                          UNION {ReplicateTables(made, reports, replicas_holder[i]) :
                                    i \in 1..Len(replicas_holder)}] :
                    \A i \in 1..Len(replicas_holder) :
                        t[i] \in ReplicateTables(made, reports, replicas_holder[i])}
    /\ stage' = "built"
    /\ UNCHANGED <<tree, pairs, parseVars, reportVars, reorgVars, poolVars, outputs_root,
                   replicas_holder, seq_args>>

Next ==
    \/ \E n \in UploadNames : ZipFile(n)
    \/ OnZipUploaded
    \/ \E a \in SeqInputs : \E c \in CodingSeqInputs : \E g \in SeqInputs :
          RunCrispresso(a, c, g)
    \/ Pool
    \/ Discover
    \/ \E wt \in RefInputs : \E mut \in RefInputs : BuildDfs(wt, mut)

Spec == Init /\ [][Next]_vars

----------------------------------------------------------------------------
(* utils.process_treatment_folder on the files below an output directory *)

\* A file below treatment_path: the folders down to it, and its name.
OutFile(d, n) == [dir |-> d, name |-> n]

RunningLog == <<"CRISPResso_RUNNING_LOG.txt">>

MappingStatistics == <<"CRISPResso_mapping_statistics.txt">>

QuantificationOfEditing == <<"CRISPResso_quantification_of_editing_frequency.txt">>

FrameshiftAnalysis == <<"Frameshift_analysis.txt">>

\* The three patterns of allele_candidates, each a prefix, "*" and a suffix.
AlleleCandidates ==
    << [pre |-> <<"Alleles_frequency_table", "_around_sgRNA_">>, suf |-> <<".txt">>],
       [pre |-> <<"Alleles_frequency_table", "_around_cut_site_">>, suf |-> <<".txt">>],
       [pre |-> <<"Alleles_frequency_table">>, suf |-> <<".txt">>] >>

\* glob.glob of prefix*suffix on a file name.
GlobMatch(pat, n) ==
    /\ Len(n) >= Len(pat.pre) + Len(pat.suf)
    /\ StartsWith(n, pat.pre)
    /\ EndsWith(n, pat.suf)

\* The folders rglob("CRISPResso_RUNNING_LOG.txt") can give first: a folder
\* is walked before the folders below it, folders side by side in any order.
FirstLogDirs(fs) ==
    LET logs == {f.dir : f \in {g \in fs : g.name = RunningLog}}
    IN  {d \in logs : \A e \in logs : e = d \/ ~IsPrefix(e, d)}

\* The directories process_treatment_folder can take as actual_dir; none when
\* no log is found.
ActualDirs(fs) ==
    IF OutFile(<<>>, RunningLog) \in fs THEN {<<>>} ELSE FirstLogDirs(fs)

\* sorted(...)[0] of a set of file names
FirstSorted(names) ==
    CHOOSE n \in names : \A m \in names \ {n} : StrLess(n, m)

\* Locating the report: the folder above actual_dir when that is a
\* CRISPResso_on_* folder, and the first CRISPResso_on_*.html there.
SampleDir(actual) ==
    IF actual # <<>> /\ StartsWith(actual[Len(actual)], <<"CRISPResso_on_">>)
    THEN SubSeq(actual, 1, Len(actual) - 1) ELSE actual

ReportHtml(fs, actual) ==
    LET ms == {f.name : f \in {g \in fs : /\ g.dir = SampleDir(actual)
                                          /\ StartsWith(g.name, <<"CRISPResso_on_">>)
                                          /\ EndsWith(g.name, <<".html">>)}}
    IN  IF ms = {} THEN None ELSE FirstSorted(ms)

\* The result with the first allele table of any folder.
RecordAnyAllele(fs, actual, treatment) ==
    LET alleles == {f.name : f \in {g \in fs :
                        \E k \in 1..Len(AlleleCandidates) :
                            GlobMatch(AlleleCandidates[k], g.name)}}
        here(n) == OutFile(actual, n) \in fs
    IN  IF alleles = {} THEN None
        ELSE IF ~(here(MappingStatistics) /\ here(QuantificationOfEditing)
                  /\ here(FrameshiftAnalysis))
        THEN None
        ELSE [Treatment |-> treatment, dir |-> actual,
              alleles |-> FirstSorted(alleles),
              ReportPath |-> ReportHtml(fs, actual)]

\* process_treatment_folder once actual_dir is known: None without an allele
\* table or without one of the three fixed report files in actual_dir, else
\* the record (its numbers are the parser's).
RecordIn(fs, actual, treatment) ==
    LET alleles == {f.name : f \in {g \in fs :
                        /\ g.dir = actual
                        /\ \E k \in 1..Len(AlleleCandidates) :
                               GlobMatch(AlleleCandidates[k], g.name)}}
        here(n) == OutFile(actual, n) \in fs
    IN  IF alleles = {} THEN None
        ELSE IF ~(here(MappingStatistics) /\ here(QuantificationOfEditing)
                  /\ here(FrameshiftAnalysis))
        THEN None
        ELSE [Treatment |-> treatment, dir |-> actual,
              alleles |-> FirstSorted(alleles),
              ReportPath |-> ReportHtml(fs, actual)]

\* The results process_treatment_folder can give.
process_treatment_folder(fs, treatment) ==
    IF ActualDirs(fs) = {} THEN {None}
    ELSE {RecordIn(fs, actual, treatment) : actual \in ActualDirs(fs)}

----------------------------------------------------------------------------
(* SpecReport: process_treatment_folder on every small set of files *)

MaxReportFiles == 6

TreatmentName == <<"Day", "3", "_", "drug">>

ResultDir == <<"CRISPResso_on_", "A">>

ReportDirs == { <<>>, <<ResultDir>>, << <<"A">>, ResultDir >> }

ReportNames ==
    { RunningLog, MappingStatistics, QuantificationOfEditing, FrameshiftAnalysis,
      <<"Alleles_frequency_table", "_around_sgRNA_", "X", ".txt">>,
      <<"Alleles_frequency_table", ".txt">> }

HtmlName == <<"CRISPResso_on_", "A", ".html">>

InitReport ==
    /\ fname = <<>>
    /\ meta = None
    /\ tree = {}
    /\ pairs = <<>>
    /\ moves = 0
    /\ runs = 0
    /\ RunIdle
    /\ stage = "files"

\* A file the tool wrote below the output directory.
WriteFile(d, n) ==
    /\ stage = "files"
    /\ Cardinality(outfiles) < MaxReportFiles
    /\ OutFile(d, n) \notin outfiles
    /\ outfiles' = outfiles \cup {OutFile(d, n)}
    /\ UNCHANGED <<record, outdirs, built, stage, parseVars, treeVars, reorgVars,
                   poolVars, appVars, sensVars>>

ProcessTreatmentFolder ==
    /\ stage = "files"
    /\ record' \in process_treatment_folder(outfiles, TreatmentName)
    /\ stage' = "processed"
    /\ UNCHANGED <<outfiles, outdirs, built, parseVars, treeVars, reorgVars,
                   poolVars, appVars, sensVars>>

NextReport ==
    \/ \E d \in ReportDirs : \E n \in ReportNames : WriteFile(d, n)
    \/ \E d \in {<<>>, << <<"A">> >>} : WriteFile(d, HtmlName)
    \/ ProcessTreatmentFolder

SpecReport == InitReport /\ [][NextReport]_vars

----------------------------------------------------------------------------
(* utils.calculate_sensitivity and utils.build_dfs_by_replicate *)

\* A value of a table: a number (percentages and sensitivities in
\* hundredths) or null.
Num(n) == [kind |-> "num", v |-> n]

Null == [kind |-> "null", v |-> 0]

NoRecord == [kind |-> "none", total |-> 0, value |-> Null]

\* What the parser gives for a folder with all its reports: the total reads
\* and MUT/WT*%, which is null when the total reads are zero.
ParsedRecord(total, pct) ==
    [kind |-> "record", total |-> total,
     value |-> IF total = 0 THEN Null ELSE Num(pct)]

\* round(x, 2) of value / base * 100, in hundredths: to the nearest, a tie
\* to the even digit.
RoundRatio(value, base) ==
    LET n == value * 10000
        q == n \div base
        r == n % base
    IN  IF 2 * r > base \/ (2 * r = base /\ q % 2 = 1) THEN q + 1 ELSE q

\* df[df["Treatment"] == treatment]: the rows of that Treatment, in the
\* order of df.
SelectRows(df, treatment) == SelectSeq(df, LAMBDA row : row.Treatment = treatment)

\* df[df["Treatment"].str.startswith(pref)]
SelectPrefix(df, pref) == SelectSeq(df, LAMBDA row : StartsWith(row.Treatment, pref))

\* int(reference_day) in the two names built from it; the day is a string
\* of digits.
DayPrefix(day) == <<"Day">> \o day \o <<"_">>

DayUntreated(day) == <<"Day">> \o day \o <<"_", "untreated">>

\* ReferenceRows without the rows Day<N>_... to fall back on.
ReferenceRowsUntreatedOnly(df, reference_day, reference_treatment) ==
    IF reference_treatment # None
    THEN SelectRows(df, reference_treatment)
    ELSE IF reference_day = None THEN df
    ELSE SelectRows(df, DayUntreated(reference_day))

\* The rows the reference value is taken from: those of the reference
\* treatment; else, with no reference day, all rows; else the rows
\* Day<N>_untreated when there is one, and otherwise the rows Day<N>_...
ReferenceRows(df, reference_day, reference_treatment) ==
    IF reference_treatment # None
    THEN SelectRows(df, reference_treatment)
    ELSE IF reference_day = None THEN df
    ELSE IF \E i \in 1..Len(df) : df[i].Treatment = DayUntreated(reference_day)
         THEN SelectRows(df, DayUntreated(reference_day))
         ELSE SelectPrefix(df, DayPrefix(reference_day))

\* A column of pandas built from records: with a number in it, the nulls
\* become NaN; all null, it keeps the parser's nulls as they are.
AllNull(df) == \A i \in 1..Len(df) : df[i].value = Null

\* What calculate_sensitivity ends with: a column, or an exception.
Returned(column) == [error |-> FALSE, column |-> column]

Raised == [error |-> TRUE, column |-> <<>>]

NullColumn(df) == Returned([i \in 1..Len(df) |-> Null])

\* calculate_sensitivity with a partly filled column when the base is zero.
SensitivityPartial(df, reference_day, reference_treatment, none_null) ==
    LET sel == ReferenceRows(df, reference_day, reference_treatment)
    IN  IF sel = <<>> THEN NullColumn(df)
        ELSE IF sel[1].value = Null
             THEN IF AllNull(df) /\ none_null THEN Raised ELSE NullColumn(df)
        ELSE Returned([i \in 1..Len(df) |->
                 IF df[i].value = Null \/ sel[1].value.v = 0 THEN df[i].value
                 ELSE Num(RoundRatio(df[i].value.v, sel[1].value.v))])

\* calculate_sensitivity (an empty table gives an empty column, as an empty
\* selection does).  none_null says that
\* the parser's null is None, so that float() of it raises TypeError; else
\* it is NaN and every sensitivity is NaN.
calculate_sensitivity(df, reference_day, reference_treatment, none_null) ==
    LET sel == ReferenceRows(df, reference_day, reference_treatment)
    IN  IF sel = <<>> THEN NullColumn(df)
        ELSE IF sel[1].value = Null
             THEN IF AllNull(df) /\ none_null THEN Raised ELSE NullColumn(df)
        ELSE IF sel[1].value.v = 0 THEN NullColumn(df)
        ELSE Returned([i \in 1..Len(df) |->
                 IF df[i].value = Null THEN Null
                 ELSE Num(RoundRatio(df[i].value.v, sel[1].value.v))])

\* A folder below out_root: a replicate folder itself (treat = None) or a
\* folder directly below one, with what process_treatment_folder gives for it.
OutDir(rep, treat, rec) == [rep |-> rep, treat |-> treat, rec |-> rec]

SubdirsOf(rep) == {e \in outdirs : e.rep = rep /\ e.treat # None}

\* process_treatment_folder(rep_path) for a replicate folder without folders.
DirectRecord(rep) ==
    IF \E e \in outdirs : e.rep = rep /\ e.treat = None
    THEN (CHOOSE e \in outdirs : e.rep = rep /\ e.treat = None).rec
    ELSE NoRecord

DataRow(treatment, rec) ==
    [Treatment |-> treatment, total |-> rec.total, value |-> rec.value]

\* The records of the folders, in the order given, without the folders that
\* gave none.
RECURSIVE RowsOf(_)
RowsOf(order) ==
    IF order = <<>> THEN <<>>
    ELSE (IF Head(order).rec.kind = "record"
          THEN <<DataRow(Head(order).treat, Head(order).rec)>> ELSE <<>>)
         \o RowsOf(Tail(order))

\* The table of a replicate from its rows: the Sensitivity and Replicate
\* columns are added; an exception of calculate_sensitivity goes through.
TableOf(rows, rep, reference_day, reference_treatment, none_null) ==
    LET c == calculate_sensitivity(rows, reference_day, reference_treatment, none_null)
    IN  IF c.error THEN [error |-> TRUE, df |-> <<>>]
        ELSE [error |-> FALSE,
              df |-> [i \in 1..Len(rows) |->
                        [Replicate |-> rep, Treatment |-> rows[i].Treatment,
                         total |-> rows[i].total, value |-> rows[i].value,
                         Sensitivity |-> c.column[i]]]]

EmptyTable == [error |-> FALSE, df |-> <<>>]

\* One turn of the loop of build_dfs_by_replicate: the tables it can give
\* replicate rep (iterdir hands the folders out in any order).
ReplicateOutcomes(rep, reference_day, reference_treatment, none_null) ==
    IF ~\E e \in outdirs : e.rep = rep THEN {EmptyTable}
    ELSE IF SubdirsOf(rep) = {}
         THEN IF DirectRecord(rep).kind # "record" THEN {EmptyTable}
              ELSE {TableOf(<<DataRow(rep, DirectRecord(rep))>>, rep,
                            reference_day, reference_treatment, none_null)}
         ELSE {IF RowsOf(order) = <<>> THEN EmptyTable
               ELSE TableOf(RowsOf(order), rep,
                            reference_day, reference_treatment, none_null) :
                  order \in Perms(SubdirsOf(rep))}

\* build_dfs_by_replicate(out_root, samples, ...): the dictionaries it can
\* return, one table per name of samples, or an exception.
build_dfs_by_replicate(samples, reference_day, reference_treatment, none_null) ==
    LET outcomes(i) == ReplicateOutcomes(samples[i], reference_day,
                                         reference_treatment, none_null)
        choices == {f \in [1..Len(samples) -> UNION {outcomes(i) : i \in 1..Len(samples)}] :
                       \A i \in 1..Len(samples) : f[i] \in outcomes(i)}
    IN  {IF \E i \in 1..Len(samples) : f[i].error
         THEN [error |-> TRUE, dfs |-> <<>>]
         ELSE [error |-> FALSE, dfs |-> [i \in 1..Len(samples) |-> f[i].df]] :
            f \in choices}

----------------------------------------------------------------------------
(* SpecTable: build_dfs_by_replicate on every small tree of output folders *)

MaxOutDirs == 2

Samples == << <<"Replica-", "1">>, <<"Replica-", "2">> >>

TreatNames ==
    { <<"Day", "3", "_", "untreated">>, <<"Day", "3", "_", "drug">>,
      <<"Day", "5", "_", "drug">> }

\* What a folder can hold: no reports, reports of a sample with no reads,
\* reports with MUT/WT*% of 0, 2 or 3.
FolderRecords ==
    { NoRecord, ParsedRecord(0, 0), ParsedRecord(9, 0), ParsedRecord(9, 200),
      ParsedRecord(9, 300) }

ReferenceDays == { None, <<"3">> }

ReferenceTreatments == { None, <<"Day", "3", "_", "untreated">>, <<"Day", "5", "_", "drug">> }

InitTable ==
    /\ fname = <<>>
    /\ meta = None
    /\ tree = {}
    /\ pairs = <<>>
    /\ moves = 0
    /\ runs = 0
    /\ RunIdle
    /\ stage = "out"

\* A folder of the output tree, with the reports the tool left in it.
MakeOutDir(rep, treat, rec) ==
    /\ stage = "out"
    /\ Cardinality(outdirs) < MaxOutDirs
    /\ ~\E e \in outdirs : e.rep = rep /\ e.treat = treat
    /\ outdirs' = outdirs \cup {OutDir(rep, treat, rec)}
    /\ UNCHANGED <<outfiles, record, built, stage, parseVars, treeVars, reorgVars,
                   poolVars, appVars, sensVars>>

\* dfs = build_dfs_by_replicate(root, reps, wt, mut, amplicon, day, treatment)
BuildTables(reference_day, reference_treatment, none_null) ==
    /\ stage = "out"
    /\ \E res \in build_dfs_by_replicate(Samples, reference_day,
                                         reference_treatment, none_null) :
          built' = [reference_day |-> reference_day,
                    reference_treatment |-> reference_treatment,
                    error |-> res.error, dfs |-> res.dfs]
    /\ stage' = "tables"
    /\ UNCHANGED <<outfiles, record, outdirs, parseVars, treeVars, reorgVars,
                   poolVars, appVars, sensVars>>

NextTable ==
    \/ \E i \in 1..Len(Samples) : \E t \in TreatNames \cup {None} :
          \E rec \in FolderRecords : MakeOutDir(Samples[i], t, rec)
    \/ \E d \in ReferenceDays : \E t \in ReferenceTreatments : \E nn \in BOOLEAN :
          BuildTables(d, t, nn)

SpecTable == InitTable /\ [][NextTable]_vars

----------------------------------------------------------------------------
(* SpecSens: calculate_sensitivity on every small table *)

MaxRows == 3

SensValues == { Null, Num(0), Num(200), Num(300) }

InitSens ==
    /\ fname = <<>>
    /\ meta = None
    /\ tree = {}
    /\ pairs = <<>>
    /\ moves = 0
    /\ runs = 0
    /\ RunIdle
    /\ stage = "rows"

\* One more row of the table: a treatment and its MUT/WT*%.
AddRow(treatment, value) ==
    /\ stage = "rows"
    /\ Len(table) < MaxRows
    /\ table' = Append(table, [Treatment |-> treatment, value |-> value])
    /\ UNCHANGED <<sensitivity, stage, outfiles, record, outdirs, built,
                   parseVars, treeVars, reorgVars, poolVars, appVars>>

\* calculate_sensitivity(df, "MUT/WT*%", reference_day, reference_treatment)
CalculateSensitivity(reference_day, reference_treatment, none_null) ==
    /\ stage = "rows"
    /\ LET res == calculate_sensitivity(table, reference_day, reference_treatment,
                                        none_null)
       IN  sensitivity' = [reference_day |-> reference_day,
                           reference_treatment |-> reference_treatment,
                           error |-> res.error, column |-> res.column]
    /\ stage' = "done"
    /\ UNCHANGED <<table, outfiles, record, outdirs, built,
                   parseVars, treeVars, reorgVars, poolVars, appVars>>

NextSens ==
    \/ \E t \in TreatNames : \E v \in SensValues : AddRow(t, v)
    \/ \E d \in ReferenceDays : \E t \in ReferenceTreatments : \E nn \in BOOLEAN :
          CalculateSensitivity(d, t, nn)

SpecSens == InitSens /\ [][NextSens]_vars

----------------------------------------------------------------------------
(* SpecParse: parse_fastq_metadata applied to every name of a bounded set *)

MaxFields == 5

FieldSet == { <<"Day", "3">>, <<"WT">>, <<"Drug">>, <<"1">>, <<"2", "a">>,
              <<"RERUN">> }

ExtSet == { <<".fastq", ".gz">>, <<".FASTQ">>, <<".txt">> }

InitParse ==
    /\ fname = <<>>
    /\ meta = None
    /\ tree = {}
    /\ pairs = <<>>
    /\ moves = 0
    /\ runs = 0
    /\ RunIdle
    /\ stage = "name"

\* The caller spells a file name, one field at a time.
AppendField(f) ==
    /\ stage = "name"
    /\ Len(Split(fname)) < MaxFields \/ fname = <<>>
    /\ fname' = IF fname = <<>> THEN f ELSE fname \o <<"_">> \o f
    /\ UNCHANGED <<meta, stage, treeVars, reorgVars, poolVars, appVars, reportVars>>

\* parse_fastq_metadata(name) on the name with one of the extensions.
Classify(ext) ==
    /\ stage = "name"
    /\ fname # <<>>
    /\ fname' = fname \o ext
    /\ meta' = parse_fastq_metadata(fname \o ext)
    /\ stage' = "parsed"
    /\ UNCHANGED <<treeVars, reorgVars, poolVars, appVars, reportVars>>

NextParse ==
    \/ \E f \in FieldSet : AppendField(f)
    \/ \E e \in ExtSet : Classify(e)

SpecParse == InitParse /\ [][NextParse]_vars

----------------------------------------------------------------------------
(* The classifier grammar, read off the characters of a name               *)
(* DayN_[generation_]variant_treatment_repM[_rerun]...fastq[.gz]           *)

UnderscoresOf(s) == {i \in 1..Len(s) : s[i] = "_"}

NthUnderscore(s, n) ==
    CHOOSE p \in UnderscoresOf(s) :
        Cardinality({x \in UnderscoresOf(s) : x < p}) = n - 1

\* The name s read with k underscores before the replicate number, whose
\* digits end at position q.
GrammarReading(s, k, q) ==
    /\ Cardinality(UnderscoresOf(s)) >= k
    /\ LowerAtom(s[1]) = "day"
    /\ NthUnderscore(s, 1) >= 3
    /\ \A i \in 2..(NthUnderscore(s, 1) - 1) : s[i] \in Digits
    /\ \A n \in 1..(k - 1) : NthUnderscore(s, n + 1) > NthUnderscore(s, n) + 1
    /\ q \in (NthUnderscore(s, k) + 1)..Len(s)
    /\ \A i \in (NthUnderscore(s, k) + 1)..q : s[i] \in Digits
    /\ \E e \in (q + 1)..Len(s) :
           SubSeq(LowerStr(s), e, Len(s)) \in {<<".fastq">>, <<".fastq", ".gz">>}

InGrammar(s) ==
    /\ s # <<>>
    /\ \E k \in {3, 4} : \E q \in 1..Len(s) : GrammarReading(s, k, q)

\* The result the claim names for a reading: Replica-M and DayN_treatment,
\* lower-cased, with _rerun exactly when the marker follows the number.
GrammarTags(s, k, q) ==
    LET day   == SubSeq(s, 2, NthUnderscore(s, 1) - 1)
        treat == SubSeq(s, NthUnderscore(s, k - 1) + 1, NthUnderscore(s, k) - 1)
        rep   == SubSeq(s, NthUnderscore(s, k) + 1, q)
        rerun == /\ q + 2 <= Len(s)
                 /\ s[q + 1] = "_"
                 /\ LowerAtom(s[q + 2]) = "rerun"
    IN  << <<"Replica-">> \o rep,
           <<"Day">> \o day \o <<"_">> \o LowerStr(treat)
               \o (IF rerun THEN <<"_", "rerun">> ELSE <<>>) >>

\* C9: parse_fastq_metadata returns None exactly for the names outside the
\* grammar, and for a name of the grammar it returns ("Replica-M",
\* "DayN_<treatment lower-cased>") of one of its readings, M being the whole
\* replicate number, with "_rerun" appended exactly when the rerun marker
\* follows the replicate number.
C9_ParseTotal ==
    stage = "parsed" =>
        IF ~InGrammar(fname) THEN meta = None
        ELSE \E k \in {3, 4} : \E q \in 1..Len(fname) :
                /\ GrammarReading(fname, k, q)
                /\ q = Len(fname) \/ fname[q + 1] \notin Digits
                /\ meta = GrammarTags(fname, k, q)

\* A rerun file with a capitalised treatment has been classified.
C9_Witness ==
    /\ stage = "parsed"
    /\ meta # None
    /\ meta[1] = <<"Replica-", "1">>
    /\ meta[2] = <<"Day", "3", "_", "drug", "_", "rerun">>

----------------------------------------------------------------------------
(* Claims about pair_fastqs *)

\* What the pairing convention makes of each name of PairNames: the base
\* and the read index, the run chunk ignored; nothing for the other names.
ExpectedRead(n) ==
    CASE n = <<"A", "_", "R", "1">> \o Fq                     -> <<"A", 1>>
      [] n = <<"A", "_", "R", "2">> \o Fq                     -> <<"A", 2>>
      [] n = <<"B", "_", "1">> \o Fq                          -> <<"B", 1>>
      [] n = <<"A", "_", "R", "1", "_", "0", "0", "1">> \o Fq -> <<"A", 1>>
      [] n = <<"A", "_", "2", "-", "1">> \o Fq                -> <<"A", 2>>
      [] n = <<"A", "_", "1", "_", "2">> \o Fq                -> <<"A", 1>>
      [] OTHER                                               -> None

\* The files of the tree that are read r of the key (d, b).
ReadsOf(d, b, r) ==
    {f \in tree : /\ f.dir = d
                  /\ EndsWith(f.name, Fq)
                  /\ ExpectedRead(f.name) = <<b, r>>}

KeysWithR1 ==
    {<<f.dir, <<ExpectedRead(f.name)[1]>> >> :
        f \in {g \in tree : /\ EndsWith(g.name, Fq)
                            /\ ExpectedRead(g.name) # None
                            /\ ExpectedRead(g.name)[2] = 1}}

EntryKey(pr) == <<pr.r1.dir, pr.sample>>

C8_PairUnique ==
    stage = "paired" =>
        /\ \A i \in 1..Len(pairs) : \A j \in 1..Len(pairs) :
               i # j => EntryKey(pairs[i]) # EntryKey(pairs[j])
        /\ \A i \in 1..Len(pairs) :
               LET d == pairs[i].r1.dir
                   b == pairs[i].sample[1]
               IN  /\ \A f \in ReadsOf(d, b, 1) \ {pairs[i].r1} :
                          PathLess(pairs[i].r1, f)
                   /\ pairs[i].r2 # None =>
                          /\ pairs[i].r2.dir = d
                          /\ ExpectedRead(pairs[i].r2.name) = <<b, 2>>
                          /\ ExpectedRead(pairs[i].r1.name) = <<b, 1>>
                          /\ \A f \in ReadsOf(d, b, 2) \ {pairs[i].r2} :
                                 PathLess(pairs[i].r2, f)

\* A key with two R1 files and an R2 file has been paired.
C8_Witness ==
    /\ stage = "paired"
    /\ \E i \in 1..Len(pairs) :
           /\ Cardinality(ReadsOf(pairs[i].r1.dir, pairs[i].sample[1], 1)) >= 2
           /\ pairs[i].r2 # None

\* C5: any two entries of one batch get different output directories.
C5_DistinctOutDirs ==
    stage = "paired" =>
        \A i \in 1..Len(pairs) : \A j \in 1..Len(pairs) :
            i # j => SampleOut(pairs[i]) # SampleOut(pairs[j])

----------------------------------------------------------------------------
(* Claims about reorganize_extracted_fastqs *)

\* The tags the naming convention gives each name of ReadNames.
ExpectedTags(n) ==
    CASE n = <<"Day", "3", "_", "WT", "_", "Drug", "_", "1", "_", "R", "1">> \o Fq
             -> << <<"Replica-", "1">>, <<"Day", "3", "_", "drug">> >>
      [] n = <<"Day", "3", "_", "WT", "_", "Drug", "_", "1", "_", "R", "2">> \o Fq
             -> << <<"Replica-", "1">>, <<"Day", "3", "_", "drug">> >>
      [] n = <<"Day", "3", "_", "WT", "_", "Drug", "_", "2", "_", "RERUN", "_", "R", "1">> \o Fq
             -> << <<"Replica-", "2">>, <<"Day", "3", "_", "drug", "_", "rerun">> >>
      [] n = <<"Day", "3", "_", "WT", "_", "Drug", "_", "1", "_", "1">> \o Fq
             -> << <<"Replica-", "1">>, <<"Day", "3", "_", "1">> >>
      [] n = <<"Day", "3", "_", "WT", "_", "Drug", "_", "1", "_", "2">> \o Fq
             -> << <<"Replica-", "2">>, <<"Day", "3", "_", "1">> >>
      [] OTHER
             -> << <<"Replica-", "unknown">>, <<"Day", "-", "unknown">> >>

\* Every read file lies in the folder of its tags.
Organized == \A f \in Rglob(tree) : f.dir = ExpectedTags(f.name)

\* C10: after one run of reorganize_extracted_fastqs every read file lies at
\* <root>/<replicate_tag>/<treatment_tag>/<name>, or below
\* Replica-unknown/Day-unknown when it has no tags, and a further run moves
\* nothing and leaves the tree as it is.
C10_ReorgIdempotent ==
    /\ [](runs >= 1 => Organized)
    /\ [][runs >= 1 => (tree' = tree /\ moves' = 0)]_vars

\* The second run has been made on a tree whose first run moved files.
C10_Witness ==
    /\ runs = 2
    /\ moves = 0
    /\ Cardinality(tree) >= 2
    /\ \E f \in tree : f.id # PathOf(f)

----------------------------------------------------------------------------
(* Claims about run_crispresso_parallel *)

RECURSIVE CountLines(_, _)
CountLines(l, kind) ==
    IF l = <<>> THEN 0
    ELSE (IF Head(l).kind = kind THEN 1 ELSE 0) + CountLines(Tail(l), kind)

RECURSIVE CountErrorsOf(_, _)
CountErrorsOf(l, sample) ==
    IF l = <<>> THEN 0
    ELSE (IF Head(l) = ErrorLine(sample) THEN 1 ELSE 0)
         + CountErrorsOf(Tail(l), sample)

Failed == {j \in Jobs : jobResult[j] = "fail"}

NoJobRaised == \A j \in Jobs : jobResult[j] # "raise"

AllResolved == \A j \in Jobs : jobState[j] = "done"

\* C1: the completed line is emitted at most once, it is the last line, it
\* is emitted only when every submitted job has resolved, and a run whose
\* jobs all came back with an exit code ends with it emitted exactly once,
\* whatever the number of failed jobs.
C1_CompletedOnce ==
    /\ CountLines(log, "completed") <= 1
    /\ CountLines(log, "completed") = 1 =>
          /\ log[Len(log)] = CompletedLine
          /\ AllResolved
    /\ (gen \in {"returned", "raised"} /\ NoJobRaised) =>
          /\ gen = "returned"
          /\ CountLines(log, "completed") = 1

\* A run of several jobs, one of them failed, has ended with the final line.
C1_Witness ==
    /\ gen = "returned"
    /\ Len(pairs) >= 3
    /\ Failed # {}
    /\ Failed # Jobs
    /\ log[Len(log)] = CompletedLine

\* C2: a non-zero exit code does not end the run: the generator leaves its
\* loop by an exception only when a job raised; each collected failed job
\* has given one failure line of its sample and no other job has given one,
\* so a run that ends with k failed jobs has k failure lines; and when
\* the generator has ended every job has run to completion.
C2_FailureLines ==
    /\ gen \in {"closing", "raised"} => ~NoJobRaised
    /\ CountLines(log, "error") = Cardinality(Failed \cap collected)
    /\ \A j \in Jobs :
          CountErrorsOf(log, pairs[j].sample)
              = Cardinality({i \in Failed \cap collected :
                                pairs[i].sample = pairs[j].sample})
    /\ gen = "returned" => CountLines(log, "error") = Cardinality(Failed)
    /\ gen \in {"returned", "raised"} => AllResolved

\* A run with two failed jobs and a successful one has ended.
C2_Witness ==
    /\ gen = "returned"
    /\ Cardinality(Failed) = 2
    /\ \E j \in Jobs : jobResult[j] = "ok"
    /\ CountLines(log, "error") = 2

\* C6: the number of jobs that run at the same moment is at most the
\* configured number of parallel samples.
C6_BoundedParallelism ==
    Cardinality(Running) <= parallel

\* The pool is full and a job waits in the queue.
C6_Witness ==
    /\ gen = "pool"
    /\ Cardinality(Running) = parallel
    /\ \E j \in Jobs : jobState[j] = "queued"

----------------------------------------------------------------------------
(* Claims about the whole run *)

\* C3: when the table has been built after a run whose jobs all came back
\* with an exit code, it has one row per successful sample, n - k rows, and
\* the log has k failure lines and one completed line.
C3_RowPerSuccessfulSample ==
    (stage = "built" /\ NoJobRaised) =>
        /\ Len(FinalTable) = Len(pairs) - Cardinality(Failed)
        /\ CountLines(log, "error") = Cardinality(Failed)
        /\ CountLines(log, "completed") = 1

\* C4: the discovery of replicates and treatments is not reached while a
\* submitted job is queued or running, whether the generator returned or
\* raised.
C4_CompletionBarrier ==
    stage \in {"discovered", "built"} => AllResolved

\* Discovery has been made after a job raised while the loop had not yet
\* taken the futures of other jobs.
C4_Witness ==
    /\ stage = "discovered"
    /\ gen = "raised"
    /\ \E j \in Jobs : j \notin collected /\ jobResult[j] \in {"ok", "fail"}

----------------------------------------------------------------------------
(* Claims about the run handler's early returns *)

InAlphabet(q) == \A i \in 1..Len(q) : q[i] \in {"A", "C", "G", "T", "N"}

HasFlag(cmd, flag) == \E i \in 1..Len(cmd) : cmd[i].flag = flag

\* C11: a step of the run handler submits jobs only when an archive has been
\* uploaded, the three sequences have only letters of ACGTN and pairing
\* found a pair; no job runs before such a step; and a request that is
\* turned down leaves the outputs root, the replicate list, the jobs and
\* the output directories as they were.
C11_RejectBeforeScheduling ==
    /\ [](stage \in {"zip", "uploaded"} => (jobState = <<>> /\ made = {}))
    /\ [][(jobState = <<>> /\ jobState' # <<>>) =>
             /\ runs >= 1
             /\ InAlphabet(seq_args'.amplicon)
             /\ InAlphabet(seq_args'.coding_seq)
             /\ InAlphabet(seq_args'.guide)
             /\ pairs' # <<>>
             /\ pairs' = pair_fastqs(tree)]_vars
    /\ [][stage' = "rejected" =>
             /\ outputs_root' = outputs_root
             /\ replicas_holder' = replicas_holder
             /\ jobState' = jobState
             /\ made' = made]_vars

\* A request with a letter outside ACGTN has been turned down after a run
\* that left an outputs root and replicates.
C11_Witness ==
    /\ stage = "rejected"
    /\ outputs_root
    /\ replicas_holder # <<>>
    /\ made # {}
    /\ ~InAlphabet(seq_args.amplicon)

\* C12: a request on an uploaded archive with valid amplicon and guide, an
\* empty coding sequence and at least one pair submits one job per pair, and
\* the command of each job has no --coding_seq argument.
C12_CodingOptional ==
    [][(/\ stage = "uploaded"
        /\ stage' # "uploaded"
        /\ Valid(seq_args'.amplicon)
        /\ Valid(seq_args'.guide)
        /\ seq_args'.coding_seq = <<>>
        /\ pair_fastqs(tree) # <<>>) =>
           /\ stage' = "run"
           /\ Len(jobState') = Len(pair_fastqs(tree))
           /\ \A j \in 1..Len(pairs') :
                 ~HasFlag(Cmd(pairs'[j], seq_args', DefaultMinAln, DefaultPlotWindow),
                          "--coding_seq")]_vars

----------------------------------------------------------------------------
(* Claims about process_treatment_folder *)

AlleleTables ==
    { <<"Alleles_frequency_table", "_around_sgRNA_", "X", ".txt">>,
      <<"Alleles_frequency_table", ".txt">> }

\* The four required artifacts are in folder d.
FourIn(d) ==
    /\ OutFile(d, MappingStatistics) \in outfiles
    /\ OutFile(d, QuantificationOfEditing) \in outfiles
    /\ OutFile(d, FrameshiftAnalysis) \in outfiles
    /\ \E n \in AlleleTables : OutFile(d, n) \in outfiles

LogDirs == {f.dir : f \in {g \in outfiles : g.name = RunningLog}}

\* C13 as stated: there is a record exactly when the four required artifacts
\* are in the directory itself or in a folder one level below it.
C13_RecordWhenArtifacts ==
    stage = "processed" =>
        (record # None <=>
            \E d \in {f.dir : f \in outfiles} : Len(d) <= 1 /\ FourIn(d))

\* C13 amended: the result is a record or None; a record comes from a folder
\* that holds CRISPResso_RUNNING_LOG.txt and the four artifacts, the
\* directory itself when it holds the log; there is a record when the
\* directory holds the log and the four artifacts, and when every folder
\* with a log holds the four artifacts; there is none without a log.
C13_RecordWhereLog ==
    stage = "processed" =>
        /\ record # None =>
              /\ record.dir \in LogDirs
              /\ FourIn(record.dir)
              /\ OutFile(record.dir, record.alleles) \in outfiles
              /\ record.alleles \in AlleleTables
              /\ record.Treatment = TreatmentName
              /\ (<<>> \in LogDirs => record.dir = <<>>)
        /\ (<<>> \in LogDirs /\ FourIn(<<>>)) => record # None
        /\ (<<>> \in LogDirs /\ ~FourIn(<<>>)) => record = None
        /\ (LogDirs # {} /\ \A d \in LogDirs : FourIn(d)) => record # None
        /\ LogDirs = {} => record = None

\* A record has come from a result folder below the directory, with the
\* pointer to the report next to that folder.
C13_Witness ==
    /\ stage = "processed"
    /\ record # None
    /\ record.dir = <<ResultDir>>
    /\ record.ReportPath = HtmlName

----------------------------------------------------------------------------
(* Claims about build_dfs_by_replicate *)

SampleIndex(rep) == CHOOSE i \in 1..Len(Samples) : Samples[i] = rep

\* The folders of a replicate that build_dfs_by_replicate parses and that
\* yield a record: its folders, or the replicate folder when it has none.
ParsedWithRecord(rep) ==
    {e \in outdirs : /\ e.rep = rep
                     /\ e.rec.kind = "record"
                     /\ (e.treat # None \/ SubdirsOf(rep) = {})}

TreatmentOf(e) == IF e.treat = None THEN e.rep ELSE e.treat

\* C14: the call returns one table per requested replicate; the table of a
\* replicate has one row for each parsed folder that yielded a record (the
\* replicate folder itself when it has no folders, else its folders), with
\* the folder's name as Treatment and the replicate as Replicate, and no
\* other row; it is empty for a missing folder and when no record was found.
C14_TablePerReplicate ==
    stage = "tables" =>
        /\ ~built.error
        /\ Len(built.dfs) = Len(Samples)
        /\ \A i \in 1..Len(Samples) :
              LET T == built.dfs[i]
                  P == ParsedWithRecord(Samples[i])
              IN  /\ Len(T) = Cardinality(P)
                  /\ \A k \in 1..Len(T) : T[k].Replicate = Samples[i]
                  /\ \A e \in P : \E k \in 1..Len(T) :
                        /\ T[k].Treatment = TreatmentOf(e)
                        /\ T[k].value = e.rec.value

\* C15: the call ends without an error, and every parsed folder whose
\* record has zero total reads has its row, with a null MUT/WT*%, in the
\* table of its replicate.
C15_ZeroReadsRowKept ==
    stage = "tables" =>
        /\ ~built.error
        /\ \A e \in outdirs :
              (e \in ParsedWithRecord(e.rep) /\ e.rec.total = 0) =>
                  \E k \in 1..Len(built.dfs[SampleIndex(e.rep)]) :
                      LET row == built.dfs[SampleIndex(e.rep)][k]
                      IN  /\ row.Treatment = TreatmentOf(e)
                          /\ row.total = 0
                          /\ row.value = Null

----------------------------------------------------------------------------
(* Claims about calculate_sensitivity *)

Untreated3 == <<"Day", "3", "_", "untreated">>

FirstIndex(S) == CHOOSE i \in S : \A j \in S : i <= j

\* The rows the reference is looked for in, as C16 states it: the rows of
\* the reference treatment, else the rows Day<N>_untreated of the reference
\* day, else every row.
ClaimedCandidates ==
    IF sensitivity.reference_treatment # None
    THEN {i \in 1..Len(table) : table[i].Treatment = sensitivity.reference_treatment}
    ELSE IF sensitivity.reference_day # None
    THEN {i \in 1..Len(table) : table[i].Treatment = Untreated3}
    ELSE 1..Len(table)

\* As the code has it: with a reference day and no row Day<N>_untreated, the
\* rows whose Treatment begins with Day<N>_.
CodeCandidates ==
    IF sensitivity.reference_treatment = None /\ sensitivity.reference_day # None
       /\ ClaimedCandidates = {}
    THEN {i \in 1..Len(table) : /\ Len(table[i].Treatment) >= 3
                                 /\ table[i].Treatment[1] = "Day"
                                 /\ table[i].Treatment[2] = "3"
                                 /\ table[i].Treatment[3] = "_"}
    ELSE ClaimedCandidates

\* c is value / base * 100 rounded to two decimals (all in hundredths).
IsRounded(c, value, base) ==
    LET d == c * base - value * 10000
    IN  2 * d <= base /\ -2 * d <= base

\* With the first row of C as the reference, a number that is not zero: the
\* call returns, a row with a number has its ratio to the reference, the
\* reference's own value gives 100, and a row without a number has null.
SensitivityFrom(C) ==
    (C # {} /\ table[FirstIndex(C)].value.kind = "num"
            /\ table[FirstIndex(C)].value.v # 0) =>
        /\ ~sensitivity.error
        /\ Len(sensitivity.column) = Len(table)
        /\ \A i \in 1..Len(table) :
              IF table[i].value = Null THEN sensitivity.column[i] = Null
              ELSE /\ sensitivity.column[i].kind = "num"
                   /\ IsRounded(sensitivity.column[i].v, table[i].value.v,
                                table[FirstIndex(C)].value.v)
                   /\ (table[i].value = table[FirstIndex(C)].value =>
                          sensitivity.column[i] = Num(10000))

\* C16 as stated: with a reference day and no reference treatment the
\* reference is the first row Day<N>_untreated and only such a row (without
\* one, no sensitivity is a number).
C16_ReferenceAsStated ==
    stage = "done" =>
        /\ SensitivityFrom(ClaimedCandidates)
        /\ ClaimedCandidates = {} =>
              \A i \in 1..Len(sensitivity.column) : sensitivity.column[i] = Null

\* C16 amended: the reference is the first row of the reference treatment;
\* else, with a reference day N, the first row Day<N>_untreated, and without
\* such a row the first row whose Treatment begins with Day<N>_; else the
\* first row.  Each sensitivity is round(value / reference * 100, 2).
C16_ReferenceSelection ==
    stage = "done" => SensitivityFrom(CodeCandidates)

\* With a reference day and no untreated row, a Day<N>_ row was the
\* reference: it has 100 and a smaller row has 66.67.
C16_Witness ==
    /\ stage = "done"
    /\ sensitivity.reference_treatment = None
    /\ sensitivity.reference_day = <<"3">>
    /\ ClaimedCandidates = {}
    /\ ~sensitivity.error
    /\ \E i \in 1..Len(table) : sensitivity.column[i] = Num(10000)
    /\ \E i \in 1..Len(table) : sensitivity.column[i] = Num(6667)

\* C17: when no reference is found, or its value is zero, the call returns
\* one value per row and every value is null.
C17_AllOrNothingNull ==
    (/\ stage = "done"
     /\ \/ CodeCandidates = {}
        \/ table[FirstIndex(CodeCandidates)].value = Num(0)) =>
        /\ ~sensitivity.error
        /\ Len(sensitivity.column) = Len(table)
        /\ \A i \in 1..Len(table) : sensitivity.column[i] = Null

\* The reference row has the value zero and another row has a number that
\* is not zero: every sensitivity is null.
C17_Witness ==
    /\ stage = "done"
    /\ CodeCandidates # {}
    /\ table[FirstIndex(CodeCandidates)].value = Num(0)
    /\ \E i \in 1..Len(table) : table[i].value = Num(300)
    /\ \A i \in 1..Len(table) : sensitivity.column[i] = Null

----------------------------------------------------------------------------
(* C18, C19: the mates and the files through reorganize_extracted_fastqs *)

\* A run chunk after the read index: nothing, digits, or "_" or "-" and digits.
ChunkOk(c) ==
    \/ c = <<>>
    \/ AllDigits(c)
    \/ c[1] \in {"_", "-"} /\ AllDigits(Tail(c))

\* Position i of the name holds the read index: "1" or "2" after "_" or
\* after "_R", followed by a run chunk, perhaps, and by .fastq.gz.
ReadIndexAt(n, i) ==
    /\ i \in 3..(Len(n) - 2)
    /\ n[i] \in {"1", "2"}
    /\ \/ n[i - 1] = "_"
       \/ i >= 4 /\ LowerAtom(n[i - 1]) = "r" /\ n[i - 2] = "_"
    /\ ChunkOk(SubSeq(n, i + 1, Len(n) - 2))
    /\ LowerStr(SubSeq(n, Len(n) - 1, Len(n))) = Fq

\* Two names that differ only in the read index, 1 in the first and 2 in the
\* second.
MateNames(n1, n2) ==
    /\ Len(n1) = Len(n2)
    /\ \E i \in 1..Len(n1) :
          /\ ReadIndexAt(n1, i)
          /\ n1[i] = "1"
          /\ n2[i] = "2"
          /\ \A j \in 1..Len(n1) : j # i => n1[j] = n2[j]

\* C18: two files of one folder whose names differ only in the read index
\* get the same (replicate_tag, treatment_tag) from parse_fastq_metadata,
\* and after the reorganization pair_fastqs returns them as one entry, the
\* first as r1 and the second as r2.
C18_MatesAgree ==
    [][runs' = runs + 1 =>
         \A f, g \in tree :
            (f.dir = g.dir /\ MateNames(f.name, g.name)) =>
               /\ parse_fastq_metadata(f.name) = parse_fastq_metadata(g.name)
               /\ \E k \in 1..Len(pair_fastqs(tree')) :
                     /\ pair_fastqs(tree')[k].r1.id = f.id
                     /\ pair_fastqs(tree')[k].r2 # None
                     /\ pair_fastqs(tree')[k].r2.id = g.id]_vars

\* C19: every read file that lies below the root before
\* reorganize_extracted_fastqs lies below it afterwards, under its name, in
\* exactly one folder.
C19_NoFileLost ==
    [][runs' = runs + 1 =>
         \A f \in Rglob(tree) :
            Cardinality({g \in tree' : g.id = f.id /\ g.name = f.name}) = 1]_vars

====
